---- MODULE Spec2Model ----
(***************************************************************************)
(* Connection pool, connection and retrying client of mcp-clickhouse       *)
(* (src/app/core/client/pool.py, src/app/core/client/connection.py), the   *)
(* client's convenience methods and the query tool                         *)
(* (src/app/api/tools/query.py, src/app/core/client/formats.py).           *)
(*                                                                         *)
(* Callers are coroutines on one event loop; each blocking driver call is  *)
(* a job run by a worker thread of the default executor.  A coroutine runs *)
(* atomically between two suspension points (the await of the lock, the    *)
(* busy-poll sleep, the await of the executor future, the retry backoff);  *)
(* worker threads interleave freely with the event loop.                   *)
(*                                                                         *)
(* Time is kept per connection as the idle age time.time() - last_used,    *)
(* counted in ticks and saturated just above pool_recycle: the only use    *)
(* the code makes of last_used is the comparison of that age with          *)
(* pool_recycle.  Connection objects nobody references any more are        *)
(* collected and their identifiers reused.                                 *)
(***************************************************************************)
EXTENDS Integers, Sequences, FiniteSets, TLC

\* ---------------------------------------------------------------- bounds
NumCallers == 2
pool_size == 1
pool_recycle == 1

\* ------------------------------------------------------ program constants
\* stop=stop_after_attempt(3)
StopAfterAttemptMut == 3 + 1
StopAfterAttempt == 3

Callers == 1..NumCallers

\* The caller that uses the ClickHouseClient; the others use the pool.
ClientCallers == {1}

\* The largest pool built: a specification about what get_connection does
\* with several idle members builds the pool one member larger.
MaxPoolSize == pool_size + 1

\* Connection objects alive at once: the members and one local per caller.
ConnIds == 1..(MaxPoolSize + NumCallers)
NoConn == 0
NoOwner == 0

\* idle age of a connection whose last_used is still 0.0, and of any
\* connection idle for longer than pool_recycle
Old == pool_recycle + 1

\* Exceptions a driver call can raise: two categories of
\* clickhouse_driver.errors.Error and any exception outside that hierarchy.
ErrKinds == {"transient", "nontransient", "other"}

\* from clickhouse_driver.errors import Error as ClickHouseError
IsClickHouseError(e) == e \in {"transient", "nontransient"}

\* retry=retry_if_exception_type(ClickHouseError)
RetryIf(e) == IsClickHouseError(e)

VARIABLES
    capacity,      \* ClickHouseConnectionPool.pool_size of this pool
    pool,          \* ClickHouseConnectionPool._pool: sequence of connections
    lock,          \* ClickHouseConnectionPool._lock: holder, or NoOwner
    is_connected,  \* ClickHouseConnection._client is not None
    in_use,        \* ClickHouseConnection._in_use
    idle_age,      \* time.time() - ClickHouseConnection._last_used
    pc,            \* position of each caller
    op,            \* operation each caller is running
    conn,          \* the caller's local `conn`
    attempts,      \* tenacity attempt number of the caller's call
    errs,          \* kinds of the errors the call's attempts failed with
    outcome,       \* what the call delivered to the caller
    jphase,        \* the caller's executor job: none, queued, running,
                   \* done (left Connection.execute through its finally),
                   \* unconnected (connect raised before the try block)
    jres,          \* result of the job: ok or the error raised
    method,        \* entry point under observation: a Client convenience
                   \* method, the query tool, a Connection method
    args,          \* the arguments of that call
    stage,         \* position of Client.get_table_schema between its queries
    backend,       \* what the ClickHouse server answers to the call's query
    handed,        \* what the call handed to the layer below it
    ret            \* what the call returned or raised

\* The variables of the call under observation, one per behaviour.
toolVars == <<method, args, stage, backend, handed, ret>>

vars == <<capacity, pool, lock, is_connected, in_use, idle_age,
          pc, op, conn, attempts, errs, outcome, jphase, jres, toolVars>>

callVars == <<op, attempts, errs>>
jobVars == <<jphase, jres>>

\* No call made, nothing handed over, nothing returned.
Nothing == [kind |-> "nothing"]

PoolInit ==
    /\ pool = <<>>
    /\ lock = NoOwner
    /\ is_connected = [k \in ConnIds |-> FALSE]
    /\ in_use = [k \in ConnIds |-> FALSE]
    /\ idle_age = [k \in ConnIds |-> Old]
    /\ pc = [c \in Callers |-> "idle"]
    /\ op = [c \in Callers |-> "none"]
    /\ conn = [c \in Callers |-> NoConn]
    /\ attempts = [c \in Callers |-> 0]
    /\ errs = [c \in Callers |-> {}]
    /\ outcome = [c \in Callers |-> "none"]
    /\ jphase = [c \in Callers |-> "none"]
    /\ jres = [c \in Callers |-> "none"]

ToolInit ==
    /\ method = "none"
    /\ args = Nothing
    /\ stage = "none"
    /\ backend = Nothing
    /\ handed = Nothing
    /\ ret = Nothing

\* The pool built with the configured pool_size.
Init == PoolInit /\ ToolInit /\ capacity = pool_size

\* ------------------------------------------------------------- helpers
Members(p) == {p[i] : i \in 1..Len(p)}

RemoveAt(p, i) == SubSeq(p, 1, i - 1) \o SubSeq(p, i + 1, Len(p))

IdleIdx(p, iu) == {i \in 1..Len(p) : ~iu[p[i]]}

\* index of the first member with is_in_use false, 0 when there is none
FirstIdleIdx(p, iu) ==
    IF IdleIdx(p, iu) = {} THEN 0
    ELSE CHOOSE i \in IdleIdx(p, iu) : \A j \in IdleIdx(p, iu) : i <= j

\* time.time() - conn.last_used > self.pool_recycle
IsStale(k) == idle_age[k] > pool_recycle

\* len(self._pool) < self.pool_size
BelowCapacityMut(p) == Len(p) <= capacity
BelowCapacity(p) == Len(p) < capacity

\* conn._in_use = False  (finally of connection())
ScopeReleaseMut(iu, k) == iu
ScopeRelease(iu, k) == [iu EXCEPT ![k] = FALSE]

\* leaving `async with self._lock` gives the lock back
LockReleaseMut(l, c) == l
LockRelease(l, c) == IF l = c THEN NoOwner ELSE l

\* busy-poll: `for conn in self._pool: if not conn.is_in_use`
PollHitMut(p, iu) == NoConn
PollHit(p, iu) ==
    LET i == FirstIdleIdx(p, iu) IN IF i = 0 THEN NoConn ELSE p[i]

\* The scan of get_connection: the first idle member is either stale
\* (disconnected, removed, loop left by break) or returned.
ScanIdx == FirstIdleIdx(pool, in_use)
ScanStale == ScanIdx # 0 /\ IsStale(pool[ScanIdx])
ScanHit == IF ScanIdx # 0 /\ ~ScanStale THEN pool[ScanIdx] ELSE NoConn
ScanPool == IF ScanStale THEN RemoveAt(pool, ScanIdx) ELSE pool
ScanConnected ==
    IF ScanStale THEN [is_connected EXCEPT ![pool[ScanIdx]] = FALSE]
    ELSE is_connected

\* ClickHouseConnection(...): a new object takes an identifier no live
\* object has.
Live(p, cn) == (Members(p) \cup {cn[c] : c \in Callers}) \ {NoConn}
NewConn ==
    CHOOSE n \in ConnIds \ Live(pool, conn) :
        \A m \in ConnIds \ Live(pool, conn) : n <= m

\* The fields of the connections after a step: an object that is neither a
\* member nor referenced by a caller or a job is gone.
Commit(ic, iu, ag) ==
    LET live == Live(pool', conn') IN
    /\ is_connected' = [k \in ConnIds |-> IF k \in live THEN ic[k] ELSE FALSE]
    /\ in_use' = [k \in ConnIds |-> IF k \in live THEN iu[k] ELSE FALSE]
    /\ idle_age' = [k \in ConnIds |-> IF k \in live THEN ag[k] ELSE Old]

\* What the caller does with the connection get_connection returned:
\* pool.execute submits the call to the executor at once, a direct scope
\* runs the caller's body.
AcquiredPc(c) == IF op[c] = "scope" THEN "in_scope" ELSE "awaiting"
AcquiredJob(c) == IF op[c] = "scope" THEN "none" ELSE "queued"

\* tenacity: retry while the predicate holds and the stop is not reached;
\* at the stop raise RetryError (reraise is left at its default);
\* an exception the predicate rejects is raised as it is.
Retries(c, e) ==
    op[c] = "client_execute" /\ RetryIf(e) /\ attempts[c] < StopAfterAttempt
FailPc(c, e) == IF Retries(c, e) THEN "backoff" ELSE "idle"
FailOutcome(c, e) ==
    IF op[c] = "client_execute" /\ RetryIf(e)
    THEN (IF attempts[c] < StopAfterAttempt THEN "none" ELSE "RetryError")
    ELSE e
FailErrs(c, e) == IF op[c] = "client_execute" THEN errs[c] \cup {e} ELSE errs[c]

\* ------------------------------------------------------------- actions
\* A caller enters pool.execute, Client.execute or a connection() scope:
\* first attempt, nothing delivered yet.
Enter(c, o) ==
    /\ pc[c] = "idle"
    /\ jphase[c] = "none"
    /\ pc' = [pc EXCEPT ![c] = "wait_lock"]
    /\ op' = [op EXCEPT ![c] = o]
    /\ attempts' = [attempts EXCEPT ![c] = 1]
    /\ errs' = [errs EXCEPT ![c] = {}]
    /\ outcome' = [outcome EXCEPT ![c] = "none"]
    /\ UNCHANGED <<capacity, pool, lock, is_connected, in_use, idle_age, conn,
                   jobVars>>

Start(c, o) == Enter(c, o) /\ UNCHANGED toolVars

\* get_connection, the scan finds a fresh idle member: mark and return it.
GetReuse(c) ==
    /\ pc[c] = "wait_lock" /\ lock = NoOwner
    /\ UNCHANGED <<capacity, toolVars>>
    /\ ScanHit # NoConn
    /\ conn' = [conn EXCEPT ![c] = ScanHit]
    /\ pc' = [pc EXCEPT ![c] = AcquiredPc(c)]
    /\ jphase' = [jphase EXCEPT ![c] = AcquiredJob(c)]
    /\ lock' = LockRelease(c, c)
    /\ UNCHANGED <<pool, callVars, outcome, jres>>
    /\ Commit(is_connected, [in_use EXCEPT ![ScanHit] = TRUE], idle_age)

\* get_connection, no member returned by the scan and the pool below
\* capacity: _create_connection succeeds.
GetCreate(c) ==
    /\ pc[c] = "wait_lock" /\ lock = NoOwner
    /\ UNCHANGED <<capacity, toolVars>>
    /\ ScanHit = NoConn
    /\ BelowCapacity(ScanPool)
    /\ LET n == NewConn IN
        /\ pool' = Append(ScanPool, n)
        /\ conn' = [conn EXCEPT ![c] = n]
        /\ Commit([ScanConnected EXCEPT ![n] = TRUE],
                  [in_use EXCEPT ![n] = TRUE],
                  [idle_age EXCEPT ![n] = Old])
    /\ pc' = [pc EXCEPT ![c] = AcquiredPc(c)]
    /\ jphase' = [jphase EXCEPT ![c] = AcquiredJob(c)]
    /\ lock' = LockRelease(c, c)
    /\ UNCHANGED <<callVars, outcome, jres>>

\* get_connection, _create_connection raises (the probe of connect fails).
GetCreateFail(c, e) ==
    /\ pc[c] = "wait_lock" /\ lock = NoOwner
    /\ UNCHANGED <<capacity, toolVars>>
    /\ ScanHit = NoConn
    /\ BelowCapacity(ScanPool)
    /\ pool' = ScanPool
    /\ errs' = [errs EXCEPT ![c] = FailErrs(c, e)]
    /\ pc' = [pc EXCEPT ![c] = FailPc(c, e)]
    /\ outcome' = [outcome EXCEPT ![c] = FailOutcome(c, e)]
    /\ lock' = LockRelease(c, c)
    /\ UNCHANGED <<op, attempts, conn, jobVars>>
    /\ Commit(ScanConnected, in_use, idle_age)

\* get_connection, pool full and every member busy: enter the busy-poll,
\* still inside `async with self._lock`.
GetWait(c) ==
    /\ pc[c] = "wait_lock" /\ lock = NoOwner
    /\ UNCHANGED <<capacity, toolVars>>
    /\ ScanHit = NoConn
    /\ ~BelowCapacity(ScanPool)
    /\ pool' = ScanPool
    /\ lock' = c
    /\ pc' = [pc EXCEPT ![c] = "polling"]
    /\ UNCHANGED <<callVars, conn, outcome, jobVars>>
    /\ Commit(ScanConnected, in_use, idle_age)

\* One pass of the busy-poll that finds an idle member.
GetPoll(c) ==
    /\ pc[c] = "polling"
    /\ UNCHANGED <<capacity, toolVars>>
    /\ PollHit(pool, in_use) # NoConn
    /\ LET k == PollHit(pool, in_use) IN
        /\ conn' = [conn EXCEPT ![c] = k]
        /\ UNCHANGED pool
        /\ Commit(is_connected, [in_use EXCEPT ![k] = TRUE], idle_age)
    /\ pc' = [pc EXCEPT ![c] = AcquiredPc(c)]
    /\ jphase' = [jphase EXCEPT ![c] = AcquiredJob(c)]
    /\ lock' = LockRelease(lock, c)
    /\ UNCHANGED <<callVars, outcome, jres>>

\* The body of a direct connection() scope hands a call to the executor.
ScopeSubmit(c) ==
    /\ pc[c] = "in_scope"
    /\ UNCHANGED <<capacity, toolVars>>
    /\ pc' = [pc EXCEPT ![c] = "awaiting"]
    /\ jphase' = [jphase EXCEPT ![c] = "queued"]
    /\ UNCHANGED <<pool, lock, is_connected, in_use, idle_age, callVars, conn,
                   outcome, jres>>

\* The body of a direct connection() scope returns.
ScopeExit(c) ==
    /\ pc[c] = "in_scope"
    /\ UNCHANGED <<capacity, toolVars>>
    /\ pc' = [pc EXCEPT ![c] = "idle"]
    /\ conn' = [conn EXCEPT ![c] = NoConn]
    /\ outcome' = [outcome EXCEPT ![c] = "ok"]
    /\ UNCHANGED <<pool, lock, callVars, jobVars>>
    /\ Commit(is_connected, ScopeRelease(in_use, conn[c]), idle_age)

\* self._last_used = time.time()
TouchMut(ag, k) == ag
Touch(ag, k) == [ag EXCEPT ![k] = 0]

\* A job whose coroutine was cancelled has nobody to deliver its result to.
Orphan(c) == pc[c] = "idle"
EndPhase(c, ph) == IF Orphan(c) THEN "none" ELSE ph
EndRes(c, r) == IF Orphan(c) THEN "none" ELSE r
EndConn(c) == IF Orphan(c) THEN NoConn ELSE conn[c]

\* Worker thread enters Connection.execute: connected, _in_use = True.
WorkerBegin(c) ==
    /\ jphase[c] = "queued"
    /\ UNCHANGED <<capacity, toolVars>>
    /\ is_connected[conn[c]]
    /\ in_use' = [in_use EXCEPT ![conn[c]] = TRUE]
    /\ jphase' = [jphase EXCEPT ![c] = "running"]
    /\ UNCHANGED <<pool, lock, is_connected, idle_age, pc, callVars, conn,
                   outcome, jres>>

\* Worker thread enters Connection.execute on a disconnected connection:
\* connect() succeeds, _in_use = True.
WorkerConnect(c) ==
    /\ jphase[c] = "queued"
    /\ UNCHANGED <<capacity, toolVars>>
    /\ ~is_connected[conn[c]]
    /\ is_connected' = [is_connected EXCEPT ![conn[c]] = TRUE]
    /\ in_use' = [in_use EXCEPT ![conn[c]] = TRUE]
    /\ jphase' = [jphase EXCEPT ![c] = "running"]
    /\ UNCHANGED <<pool, lock, idle_age, pc, callVars, conn, outcome, jres>>

\* Worker thread enters Connection.execute on a disconnected connection and
\* the probe of connect() raises: the try block is never entered.
WorkerConnectFail(c, e) ==
    /\ jphase[c] = "queued"
    /\ UNCHANGED <<capacity, toolVars>>
    /\ ~is_connected[conn[c]]
    /\ jphase' = [jphase EXCEPT ![c] = EndPhase(c, "unconnected")]
    /\ jres' = [jres EXCEPT ![c] = EndRes(c, e)]
    /\ conn' = [conn EXCEPT ![c] = EndConn(c)]
    /\ UNCHANGED <<pool, lock, pc, callVars, outcome>>
    /\ Commit(is_connected, in_use, idle_age)

\* The driver call returns: _last_used = time.time(), finally _in_use = False.
WorkerOk(c) ==
    /\ jphase[c] = "running"
    /\ UNCHANGED <<capacity, toolVars>>
    /\ jphase' = [jphase EXCEPT ![c] = EndPhase(c, "done")]
    /\ jres' = [jres EXCEPT ![c] = EndRes(c, "ok")]
    /\ conn' = [conn EXCEPT ![c] = EndConn(c)]
    /\ UNCHANGED <<pool, lock, pc, callVars, outcome>>
    /\ Commit(is_connected, [in_use EXCEPT ![conn[c]] = FALSE],
              Touch(idle_age, conn[c]))

\* The driver call raises: finally _in_use = False.
WorkerFail(c, e) ==
    /\ jphase[c] = "running"
    /\ UNCHANGED <<capacity, toolVars>>
    /\ jphase' = [jphase EXCEPT ![c] = EndPhase(c, "done")]
    /\ jres' = [jres EXCEPT ![c] = EndRes(c, e)]
    /\ conn' = [conn EXCEPT ![c] = EndConn(c)]
    /\ UNCHANGED <<pool, lock, pc, callVars, outcome>>
    /\ Commit(is_connected, [in_use EXCEPT ![conn[c]] = FALSE], idle_age)

\* The executor future of the caller's job is done.
Finished(c) == jphase[c] \in {"done", "unconnected"}

\* The coroutine awaiting the executor future resumes with a result; in
\* pool.execute the return leaves the connection() scope.
ResumeOk(c) ==
    /\ pc[c] = "awaiting" /\ Finished(c) /\ jres[c] = "ok"
    /\ UNCHANGED <<capacity, toolVars>>
    /\ jphase' = [jphase EXCEPT ![c] = "none"]
    /\ jres' = [jres EXCEPT ![c] = "none"]
    /\ UNCHANGED <<pool, lock, callVars>>
    /\ IF op[c] = "scope"
       THEN /\ pc' = [pc EXCEPT ![c] = "in_scope"]
            /\ UNCHANGED <<is_connected, in_use, idle_age, outcome, conn>>
       ELSE /\ pc' = [pc EXCEPT ![c] = "idle"]
            /\ conn' = [conn EXCEPT ![c] = NoConn]
            /\ outcome' = [outcome EXCEPT ![c] = "ok"]
            /\ Commit(is_connected, ScopeRelease(in_use, conn[c]), idle_age)

\* The coroutine awaiting the executor future resumes with an exception,
\* which leaves the connection() scope and reaches the retry policy.
ResumeFail(c) ==
    /\ pc[c] = "awaiting" /\ Finished(c) /\ jres[c] # "ok"
    /\ UNCHANGED <<capacity, toolVars>>
    /\ jphase' = [jphase EXCEPT ![c] = "none"]
    /\ jres' = [jres EXCEPT ![c] = "none"]
    /\ conn' = [conn EXCEPT ![c] = NoConn]
    /\ errs' = [errs EXCEPT ![c] = FailErrs(c, jres[c])]
    /\ pc' = [pc EXCEPT ![c] = FailPc(c, jres[c])]
    /\ outcome' = [outcome EXCEPT ![c] = FailOutcome(c, jres[c])]
    /\ UNCHANGED <<pool, lock, op, attempts>>
    /\ Commit(is_connected, ScopeRelease(in_use, conn[c]), idle_age)

\* The backoff wait of the retry policy ends: next attempt.
BackoffEnd(c) ==
    /\ pc[c] = "backoff"
    /\ UNCHANGED <<capacity, toolVars>>
    /\ pc' = [pc EXCEPT ![c] = "wait_lock"]
    /\ attempts' = [attempts EXCEPT ![c] = @ + 1]
    /\ UNCHANGED <<pool, lock, is_connected, in_use, idle_age, op, errs, conn,
                   outcome, jobVars>>

\* CancelledError, with the suspension point it was raised at.
CancelOutcomes ==
    {"cancelled_at_lock", "cancelled_at_backoff", "cancelled_at_poll",
     "cancelled_in_scope"}

\* Cancellation while waiting for the lock or in the backoff wait.
CancelWaiting(c) ==
    /\ pc[c] \in {"wait_lock", "backoff"}
    /\ UNCHANGED <<capacity, toolVars>>
    /\ pc' = [pc EXCEPT ![c] = "idle"]
    /\ outcome' = [outcome EXCEPT ![c] =
                     IF pc[c] = "backoff" THEN "cancelled_at_backoff"
                     ELSE "cancelled_at_lock"]
    /\ lock' = LockRelease(lock, c)
    /\ UNCHANGED <<pool, is_connected, in_use, idle_age, callVars, conn,
                   jobVars>>

\* Cancellation during the busy-poll sleep: `async with` gives the lock back.
CancelPoll(c) ==
    /\ pc[c] = "polling"
    /\ UNCHANGED <<capacity, toolVars>>
    /\ pc' = [pc EXCEPT ![c] = "idle"]
    /\ outcome' = [outcome EXCEPT ![c] = "cancelled_at_poll"]
    /\ lock' = LockRelease(lock, c)
    /\ UNCHANGED <<pool, is_connected, in_use, idle_age, callVars, conn,
                   jobVars>>

\* Cancellation inside the scope: the finally of connection() runs.  A job
\* no worker has picked up is cancelled with the future and a finished job's
\* result is dropped; any other job keeps running in its worker thread.
CancelScope(c, picked) ==
    /\ pc[c] \in {"in_scope", "awaiting"}
    /\ UNCHANGED <<capacity, toolVars>>
    /\ picked => jphase[c] = "queued"
    /\ pc' = [pc EXCEPT ![c] = "idle"]
    /\ outcome' = [outcome EXCEPT ![c] = "cancelled_in_scope"]
    /\ LET orphan == jphase[c] = "running" \/ (jphase[c] = "queued" /\ picked)
       IN /\ jphase' = [jphase EXCEPT ![c] = IF orphan THEN @ ELSE "none"]
          /\ conn' = [conn EXCEPT ![c] = IF orphan THEN @ ELSE NoConn]
    /\ jres' = [jres EXCEPT ![c] = "none"]
    /\ UNCHANGED <<pool, lock, callVars>>
    /\ Commit(is_connected, ScopeRelease(in_use, conn[c]), idle_age)

\* `for conn in self._pool: conn.disconnect()`
DisconnectAllMut(p, ic) == ic
DisconnectAll(p, ic) ==
    [k \in ConnIds |-> IF k \in Members(p) THEN FALSE ELSE ic[k]]

\* close(), and Client.close() which awaits it: under the lock, disconnect
\* every member, clear the membership.
CloseMut ==
    /\ UNCHANGED <<capacity, toolVars>>
    /\ pool # <<>>
    /\ pool' = <<>>
    /\ UNCHANGED <<lock, pc, callVars, conn, outcome, jobVars>>
    /\ Commit(DisconnectAll(pool, is_connected), in_use, idle_age)
Close ==
    /\ lock = NoOwner
    /\ UNCHANGED <<capacity, toolVars>>
    /\ pool # <<>>
    /\ pool' = <<>>
    /\ UNCHANGED <<lock, pc, callVars, conn, outcome, jobVars>>
    /\ Commit(DisconnectAll(pool, is_connected), in_use, idle_age)

\* A tick of the clock: every connection is idle for one tick longer.
Tick ==
    /\ \E k \in Live(pool, conn) : idle_age[k] < Old
    /\ UNCHANGED <<capacity, toolVars>>
    /\ idle_age' = [k \in ConnIds |->
                      IF idle_age[k] < Old THEN idle_age[k] + 1 ELSE Old]
    /\ UNCHANGED <<pool, lock, is_connected, in_use, pc, callVars, conn,
                   outcome, jobVars>>

\* Steps of get_connection, of the workers and of the awaiting coroutines,
\* whoever the caller.
Use ==
    \/ \E c \in Callers : GetReuse(c)
    \/ \E c \in Callers : GetCreate(c)
    \/ \E c \in Callers, e \in ErrKinds : GetCreateFail(c, e)
    \/ \E c \in Callers : GetWait(c)
    \/ \E c \in Callers : GetPoll(c)
    \/ \E c \in Callers : WorkerBegin(c)
    \/ \E c \in Callers : WorkerConnect(c)
    \/ \E c \in Callers, e \in ErrKinds : WorkerConnectFail(c, e)
    \/ \E c \in Callers : WorkerOk(c)
    \/ \E c \in Callers, e \in ErrKinds : WorkerFail(c, e)
    \/ \E c \in Callers : ResumeOk(c)
    \/ \E c \in Callers : ResumeFail(c)
    \/ \E c \in Callers : CancelWaiting(c)
    \/ \E c \in Callers : CancelPoll(c)
    \/ \E c \in Callers, picked \in BOOLEAN : CancelScope(c, picked)
    \/ Tick

\* Callers of the pool: pool.execute, pool.execute_with_format, connection().
Next ==
    \/ \E c \in Callers, o \in {"pool_execute", "scope"} : Start(c, o)
    \/ \E c \in Callers : ScopeSubmit(c)
    \/ \E c \in Callers : ScopeExit(c)
    \/ Use

Spec == Init /\ [][Next]_vars

\* The same callers, and close() at any moment.
NextClose ==
    \/ \E c \in Callers, o \in {"pool_execute", "scope"} : Start(c, o)
    \/ \E c \in Callers : ScopeSubmit(c)
    \/ \E c \in Callers : ScopeExit(c)
    \/ Use
    \/ Close

SpecClose == Init /\ [][NextClose]_vars

\* One caller of the client (Client.execute, Client.execute_with_format)
\* beside callers of the pool that compete with it for the connections.
NextClient ==
    \/ \E c \in ClientCallers : Start(c, "client_execute")
    \/ \E c \in Callers \ ClientCallers : Start(c, "pool_execute")
    \/ \E c \in Callers : BackoffEnd(c)
    \/ Use
    \/ Close

SpecClient == Init /\ [][NextClient]_vars

\* The pool built one member larger, so that it can hold several idle
\* members at once.
InitScan == PoolInit /\ ToolInit /\ capacity = MaxPoolSize

\* Callers of connection() on that pool, the backend up and nobody
\* cancelled: each caller borrows, runs any number of calls, releases.
NextScan ==
    \/ \E c \in Callers : Start(c, "scope")
    \/ \E c \in Callers : ScopeSubmit(c)
    \/ \E c \in Callers : ScopeExit(c)
    \/ \E c \in Callers : GetReuse(c)
    \/ \E c \in Callers : GetCreate(c)
    \/ \E c \in Callers : WorkerBegin(c)
    \/ \E c \in Callers : WorkerConnect(c)
    \/ \E c \in Callers : WorkerOk(c)
    \/ \E c \in Callers : ResumeOk(c)
    \/ Tick

SpecScan == InitScan /\ [][NextScan]_vars

\* disconnect(): `if self._client: self._client = None`
DisconnectMut(ic, k) == [ic EXCEPT ![k] = ~ic[k]]
Disconnect(ic, k) == [ic EXCEPT ![k] = FALSE]

\* The body of a connection() scope calls conn.disconnect().
ScopeDisconnect(c) ==
    /\ pc[c] = "in_scope"
    /\ UNCHANGED <<capacity, toolVars>>
    /\ is_connected' = Disconnect(is_connected, conn[c])
    /\ UNCHANGED <<pool, lock, in_use, idle_age, pc, callVars, conn, outcome,
                   jobVars>>

\* The body of a connection() scope calls conn.connect(): a new session is
\* built and its probe query answered.
ScopeConnect(c) ==
    /\ pc[c] = "in_scope"
    /\ UNCHANGED <<capacity, toolVars>>
    /\ is_connected' = [is_connected EXCEPT ![conn[c]] = TRUE]
    /\ UNCHANGED <<pool, lock, in_use, idle_age, pc, callVars, conn, outcome,
                   jobVars>>

\* The body of a connection() scope calls conn.connect() and the probe
\* query raises: the session is dropped, the exception leaves the scope.
ScopeConnectFail(c, e) ==
    /\ pc[c] = "in_scope"
    /\ UNCHANGED <<capacity, toolVars>>
    /\ pc' = [pc EXCEPT ![c] = "idle"]
    /\ conn' = [conn EXCEPT ![c] = NoConn]
    /\ outcome' = [outcome EXCEPT ![c] = e]
    /\ UNCHANGED <<pool, lock, callVars, jobVars>>
    /\ Commit(Disconnect(is_connected, conn[c]),
              ScopeRelease(in_use, conn[c]), idle_age)

\* Callers of connection() that also call connect() and disconnect() on
\* the connection they borrowed.
NextConn ==
    \/ \E c \in Callers : Start(c, "scope")
    \/ \E c \in Callers : ScopeSubmit(c)
    \/ \E c \in Callers : ScopeExit(c)
    \/ \E c \in Callers : ScopeDisconnect(c)
    \/ \E c \in Callers : ScopeConnect(c)
    \/ \E c \in Callers, e \in ErrKinds : ScopeConnectFail(c, e)
    \/ \E c \in Callers : GetReuse(c)
    \/ \E c \in Callers : GetCreate(c)
    \/ \E c \in Callers, e \in ErrKinds : GetCreateFail(c, e)
    \/ \E c \in Callers : GetWait(c)
    \/ \E c \in Callers : GetPoll(c)
    \/ \E c \in Callers : WorkerBegin(c)
    \/ \E c \in Callers : WorkerConnect(c)
    \/ \E c \in Callers, e \in ErrKinds : WorkerConnectFail(c, e)
    \/ \E c \in Callers : WorkerOk(c)
    \/ \E c \in Callers, e \in ErrKinds : WorkerFail(c, e)
    \/ \E c \in Callers : ResumeOk(c)
    \/ \E c \in Callers : ResumeFail(c)
    \/ Tick

SpecConn == Init /\ [][NextConn]_vars

\* Callers of the pool while the backend accepts connections and nobody is
\* cancelled: every get_connection call is one the pool has to serve.
NextLive ==
    \/ \E c \in Callers, o \in {"pool_execute", "scope"} : Start(c, o)
    \/ \E c \in Callers : ScopeSubmit(c)
    \/ \E c \in Callers : ScopeExit(c)
    \/ \E c \in Callers : GetReuse(c)
    \/ \E c \in Callers : GetCreate(c)
    \/ \E c \in Callers : GetWait(c)
    \/ \E c \in Callers : GetPoll(c)
    \/ \E c \in Callers : WorkerBegin(c)
    \/ \E c \in Callers : WorkerConnect(c)
    \/ \E c \in Callers : WorkerOk(c)
    \/ \E c \in Callers, e \in ErrKinds : WorkerFail(c, e)
    \/ \E c \in Callers : ResumeOk(c)
    \/ \E c \in Callers : ResumeFail(c)
    \/ Tick

\* asyncio.Lock wakes its waiters in the order they came: a caller waiting
\* for the lock gets it once the holders before it are through.
GetsLock(c) == GetReuse(c) \/ GetCreate(c) \/ GetWait(c)

\* The driver call of a worker thread returns or raises.
WorkerEnds(c) == WorkerOk(c) \/ \E e \in ErrKinds : WorkerFail(c, e)

\* The event loop runs every coroutine that is ready (the busy-poll wakes
\* every 0.1 s, the awaiting coroutine when its future is done), the
\* executor runs every job, the lock is fair, and the body of a
\* connection() scope ends.
Fairness ==
    \A c \in Callers :
        /\ SF_vars(GetsLock(c))
        /\ WF_vars(GetPoll(c))
        /\ WF_vars(WorkerBegin(c) \/ WorkerConnect(c))
        /\ WF_vars(WorkerEnds(c))
        /\ WF_vars(ResumeOk(c) \/ ResumeFail(c))
        /\ SF_vars(ScopeExit(c))

SpecLive == Init /\ [][NextLive]_vars /\ Fairness

TypeOK ==
    /\ pool \in Seq(ConnIds)
    /\ lock \in Callers \cup {NoOwner}
    /\ \A c \in Callers : conn[c] \in ConnIds \cup {NoConn}

\* ------------------------------------------- client convenience methods
\* A Python value that is None or a dict; a dict is a function from the
\* keys it holds.
PyNone == [py |-> "None"]
PyDict(d) == [py |-> "dict", items |-> d]
EmptyDict == [k \in {} |-> 0]

\* ClickHouseClient(query_timeout=...)
query_timeout == 2

\* Names and values of the ClickHouse settings a caller may pass.
MaxSettingValue == 2
SettingNames == {"max_execution_time", "max_threads", "readonly"}
SettingsInputs ==
    {PyNone} \cup
    {PyDict(d) : d \in UNION {[ks -> 1..MaxSettingValue] :
                                ks \in SUBSET SettingNames}}

\* if settings is None: settings = {}
\* if "max_execution_time" not in settings:
\*     settings["max_execution_time"] = self.query_timeout
WithTimeout(s) ==
    LET d == IF s.py = "None" THEN EmptyDict ELSE s.items IN
    IF "max_execution_time" \in DOMAIN d THEN d
    ELSE [k \in DOMAIN d \cup {"max_execution_time"} |->
            IF k = "max_execution_time" THEN query_timeout ELSE d[k]]

ExecuteMethods == {"Client.execute", "Client.execute_with_format"}

\* Client.execute / Client.execute_with_format up to the call of the pool
\* method, which passes the settings on to the Connection method as they are.
ClientExecuteCall(m, s) ==
    /\ method = "none"
    /\ method' = m
    /\ args' = [settings |-> s]
    /\ handed' = [kind |-> "call", settings |-> WithTimeout(s)]
    /\ ret' = Nothing
    /\ UNCHANGED <<stage, backend>>
    /\ UNCHANGED <<capacity, pool, lock, is_connected, in_use, idle_age, pc,
                   callVars, conn, outcome, jobVars>>

\* Rows given to insert_data: dicts, each a sequence of <<key, value>> pairs
\* with distinct keys, in insertion order.
MaxRows == 2
Tables == {"events", "no_such_table"}
ColumnNames == {"id", "name"}
CellValues == {"x", "y"}
Null == "None"
RowInputs ==
    {r \in UNION {[1..n -> ColumnNames \X CellValues] :
                    n \in 0..Cardinality(ColumnNames)} :
        \A i, j \in 1..Len(r) : r[i][1] = r[j][1] => i = j}
DataInputs == UNION {[1..n -> RowInputs] : n \in 0..MaxRows}

\* list(row.keys())
Keys(row) == [i \in 1..Len(row) |-> row[i][1]]

\* row.get(col)
RowGet(row, col) ==
    IF \E i \in 1..Len(row) : row[i][1] = col
    THEN row[CHOOSE i \in 1..Len(row) : row[i][1] = col][2]
    ELSE Null

\* columns = list(data[0].keys())
Columns(data) == Keys(data[1])

\* values.append([row.get(col) for col in columns]) for each row
Values(data) ==
    [i \in 1..Len(data) |->
        [j \in 1..Len(Columns(data)) |-> RowGet(data[i], Columns(data)[j])]]

\* `if not data`
NoDataMut(data) == FALSE
NoData(data) == Len(data) = 0

\* Client.insert_data.  With no row it returns at once.  Otherwise it
\* builds columns, values and settings and evaluates self.connection():
\* `connection` is a property whose value is already the context manager
\* made by self._pool.connection(), a generator not yet started; calling
\* that object raises TypeError before get_connection is ever entered.
InsertDataMut(t, data, s) ==
    /\ method = "none"
    /\ method' = "Client.insert_data"
    /\ args' = [table |-> t, data |-> data, settings |-> s]
    /\ handed' = Nothing
    /\ ret' = Nothing
    /\ UNCHANGED <<stage, backend>>
    /\ \E c \in ClientCallers : Enter(c, "client_execute")
InsertData(t, data, s) ==
    /\ method = "none"
    /\ method' = "Client.insert_data"
    /\ args' = [table |-> t, data |-> data, settings |-> s]
    /\ handed' = Nothing
    /\ ret' = IF NoData(data)
              THEN [kind |-> "returned", rows_inserted |-> 0]
              ELSE [kind |-> "raised", error |-> "TypeError"]
    /\ UNCHANGED <<stage, backend>>
    /\ UNCHANGED <<capacity, pool, lock, is_connected, in_use, idle_age, pc,
                   callVars, conn, outcome, jobVars>>

\* Tables the backend has.
ExistingTables == {"events"}

\* Client.get_table_schema begins: its first query, DESCRIBE TABLE, goes
\* through Client.execute.
SchemaStart(c, t) ==
    /\ method = "none"
    /\ Enter(c, "client_execute")
    /\ method' = "Client.get_table_schema"
    /\ args' = [table |-> t]
    /\ stage' = "describe"
    /\ UNCHANGED <<backend, handed, ret>>

\* The DESCRIBE query returned: the second query, on system.tables, goes
\* through Client.execute.
SchemaNext(c) ==
    /\ stage = "describe" /\ outcome[c] = "ok"
    /\ Enter(c, "client_execute")
    /\ stage' = "catalog"
    /\ UNCHANGED <<method, args, backend, handed, ret>>

\* The catalog query returned: no row means
\* raise ClickHouseError("Table ... does not exist"), a row gives the record.
SchemaReturn(c) ==
    /\ stage = "catalog" /\ pc[c] = "idle" /\ outcome[c] = "ok"
    /\ stage' = "none"
    /\ ret' = IF args.table \in ExistingTables
              THEN [kind |-> "returned", table |-> args.table,
                    columns |-> "of DESCRIBE", engine |-> "of system.tables"]
              ELSE [kind |-> "raised", error |-> "does not exist"]
    /\ UNCHANGED <<method, args, backend, handed>>
    /\ UNCHANGED <<capacity, pool, lock, is_connected, in_use, idle_age, pc,
                   callVars, conn, outcome, jobVars>>

\* One of the two Client.execute calls raised: get_table_schema lets the
\* exception through.
SchemaRaise(c) ==
    /\ stage # "none" /\ pc[c] = "idle" /\ outcome[c] \notin {"none", "ok"}
    /\ stage' = "none"
    /\ ret' = [kind |-> "raised", error |-> outcome[c]]
    /\ UNCHANGED <<method, args, backend, handed>>
    /\ UNCHANGED <<capacity, pool, lock, is_connected, in_use, idle_age, pc,
                   callVars, conn, outcome, jobVars>>

\* The server answers the query of caller c's job: DESCRIBE TABLE of a table
\* it does not have is rejected, any other query of get_table_schema is
\* answered.
Rejected(c) ==
    c \in ClientCallers /\ stage = "describe"
        /\ args.table \notin ExistingTables
InSchemaCall(c) == c \in ClientCallers /\ stage # "none"

\* The driver raises e for the job of caller c: the server's rejection is a
\* ServerException, which is not transient; a query the server accepts can
\* still fail on the network or outside the driver.
BackendRaises(c, e) ==
    InSchemaCall(c) => (e = "nontransient" <=> Rejected(c))

\* connect() fails for the job or the get_connection of caller c: the
\* server accepts the probe SELECT 1, so the failure is not a rejection.
ConnectRaises(c, e) == InSchemaCall(c) => e # "nontransient"

\* One caller of the client's convenience methods beside a caller of
\* pool.execute.
NextTools ==
    \/ \E c \in ClientCallers, t \in Tables : SchemaStart(c, t)
    \/ \E c \in ClientCallers : SchemaNext(c)
    \/ \E c \in ClientCallers : SchemaReturn(c)
    \/ \E c \in ClientCallers : SchemaRaise(c)
    \/ /\ method = "none"
       /\ \E t \in Tables, data \in DataInputs : InsertData(t, data, PyNone)
    \/ \E c \in Callers \ ClientCallers : Start(c, "pool_execute")
    \/ \E c \in Callers : GetReuse(c)
    \/ \E c \in Callers : GetCreate(c)
    \/ \E c \in Callers, e \in ErrKinds :
          ConnectRaises(c, e) /\ GetCreateFail(c, e)
    \/ \E c \in Callers : GetWait(c)
    \/ \E c \in Callers : GetPoll(c)
    \/ \E c \in Callers : WorkerBegin(c)
    \/ \E c \in Callers : WorkerConnect(c)
    \/ \E c \in Callers, e \in ErrKinds :
          ConnectRaises(c, e) /\ WorkerConnectFail(c, e)
    \/ \E c \in Callers : ~Rejected(c) /\ WorkerOk(c)
    \/ \E c \in Callers, e \in ErrKinds : BackendRaises(c, e) /\ WorkerFail(c, e)
    \/ \E c \in Callers : ResumeOk(c)
    \/ \E c \in Callers : ResumeFail(c)
    \/ \E c \in Callers : BackoffEnd(c)
    \/ Tick

SpecTools == Init /\ [][NextTools]_vars

\* Calls of the client seen for the settings they hand down.
NextSettings ==
    \/ /\ method = "none"
       /\ \E m \in ExecuteMethods, s \in SettingsInputs :
             ClientExecuteCall(m, s)
    \/ /\ method = "none"
       /\ \E t \in Tables, data \in DataInputs, s \in SettingsInputs :
             InsertData(t, data, s)

SpecSettings == Init /\ [][NextSettings]_vars

\* ------------------------------------------------------------ query tool
\* A str is the sequence of its characters.
Uppers ==
    <<"A", "B", "C", "D", "E", "F", "G", "H", "I", "J", "K", "L", "M",
      "N", "O", "P", "Q", "R", "S", "T", "U", "V", "W", "X", "Y", "Z">>
Lowers ==
    <<"a", "b", "c", "d", "e", "f", "g", "h", "i", "j", "k", "l", "m",
      "n", "o", "p", "q", "r", "s", "t", "u", "v", "w", "x", "y", "z">>

\* str.lower() and str.upper(), character by character
LowerChar(ch) ==
    IF \E i \in 1..Len(Uppers) : Uppers[i] = ch
    THEN Lowers[CHOOSE i \in 1..Len(Uppers) : Uppers[i] = ch]
    ELSE ch
UpperChar(ch) ==
    IF \E i \in 1..Len(Lowers) : Lowers[i] = ch
    THEN Uppers[CHOOSE i \in 1..Len(Lowers) : Lowers[i] = ch]
    ELSE ch
Lower(s) == [i \in 1..Len(s) |-> LowerChar(s[i])]
Upper(s) == [i \in 1..Len(s) |-> UpperChar(s[i])]

\* class ResultFormat(str, Enum): the members and their values
ResultFormat ==
    [JSON |-> <<"j", "s", "o", "n">>,
     JSON_COMPACT |-> <<"J", "S", "O", "N", "C", "o", "m", "p", "a", "c", "t">>,
     PRETTY |-> <<"P", "r", "e", "t", "t", "y">>,
     CSV |-> <<"C", "S", "V">>,
     TSV |-> <<"T", "S", "V">>,
     PARQUET |-> <<"P", "a", "r", "q", "u", "e", "t">>,
     ARROW |-> <<"A", "r", "r", "o", "w">>,
     NATIVE |-> <<"N", "a", "t", "i", "v", "e">>,
     NULL |-> <<"N", "u", "l", "l">>]

\* ResultFormat(value): the member with that value, ValueError without one
HasMember(v) == \E m \in DOMAIN ResultFormat : ResultFormat[m] = v
MemberOf(v) == CHOOSE m \in DOMAIN ResultFormat : ResultFormat[m] = v

\* except ValueError: result_format = ResultFormat.JSON
FallbackMut == "CSV"
Fallback == "JSON"

\* try: result_format = ResultFormat(format.lower())
Warns(format) == ~HasMember(Lower(format))
Resolve(format) ==
    IF HasMember(Lower(format)) THEN MemberOf(Lower(format)) ELSE Fallback

\* Format names a caller of the tool may give.
FormatInputs ==
    {<<"j", "s", "o", "n">>, <<"J", "S", "O", "N">>,
     <<"p", "r", "e", "t", "t", "y">>, <<"P", "r", "e", "t", "t", "y">>,
     <<"c", "s", "v">>, <<"C", "S", "V">>,
     <<"t", "s", "v">>, <<"T", "S", "V">>,
     <<"b", "o", "g", "u", "s">>, <<>>}

\* What the server answers to the tool's query: the rows with the column
\* metadata (name, type) of Client.execute(with_column_types=True), and the
\* text of Client.execute_with_format.  Two columns of a result may bear
\* the same name (SELECT 1, 1).
MaxColumns == 2
ColumnMetas == UNION {[1..n -> ColumnNames \X {"String"}] : n \in 0..MaxColumns}
TextInputs == {<<>>, <<"x", "\n", "y", "\n">>}
RowsOf(width) ==
    UNION {[1..n -> [1..width -> CellValues]] : n \in 0..MaxRows}
AnswerInputs ==
    UNION {{[rows |-> rs, columns |-> cm, text |-> tx] :
               rs \in RowsOf(Len(cm)), tx \in TextInputs} :
           cm \in ColumnMetas}

\* dict(zip(columns, row)): the pairs are taken in order up to the shorter
\* of the two; a key met again keeps its place and takes the later value.
Min(a, b) == IF a <= b THEN a ELSE b
Put(d, k, v) ==
    IF \E i \in 1..Len(d) : d[i][1] = k
    THEN [i \in 1..Len(d) |-> IF d[i][1] = k THEN <<k, v>> ELSE d[i]]
    ELSE Append(d, <<k, v>>)
RECURSIVE ZipDict(_, _, _)
ZipDict(columns, row, n) ==
    IF n = 0 THEN <<>>
    ELSE Put(ZipDict(columns, row, n - 1), columns[n], row[n])

\* result_str.count("\n")
Count(s, ch) == Cardinality({i \in 1..Len(s) : s[i] = ch})

\* columns = [col[0] for col in result_data[1]]
NamesOf(columns) == [i \in 1..Len(columns) |-> columns[i][1]]

\* result_rows.append(dict(zip(columns, row))) for each row
Reshape(answer) ==
    [i \in 1..Len(answer.rows) |->
        ZipDict(NamesOf(answer.columns), answer.rows[i],
                Min(Len(answer.columns), Len(answer.rows[i])))]

\* What the tool returns for a format name and the server's answer.
ToolResult(format, answer) ==
    IF Resolve(format) = "PRETTY"
    THEN [kind |-> "returned", shape |-> "text", result |-> answer.text,
          rows |-> Count(answer.text, "\n"), warned |-> Warns(format)]
    ELSE IF Resolve(format) = "JSON"
    THEN [kind |-> "returned", shape |-> "mappings",
          result |-> Reshape(answer),
          rows |-> Len(answer.rows), warned |-> Warns(format)]
    ELSE [kind |-> "returned", shape |-> "rows and columns",
          result |-> <<answer.rows, answer.columns>>,
          rows |-> Len(answer.rows), warned |-> Warns(format)]

\* The tool handler `query`, the backend answering its query.
Query(format, answer) ==
    /\ method = "none"
    /\ method' = "query"
    /\ args' = [format |-> format]
    /\ backend' = answer
    /\ handed' = IF Resolve(format) = "PRETTY"
                 THEN [kind |-> "call", to |-> "Client.execute_with_format",
                       format_name |-> Resolve(format)]
                 ELSE [kind |-> "call", to |-> "Client.execute",
                       format_name |-> "none"]
    /\ ret' = ToolResult(format, answer)
    /\ UNCHANGED stage
    /\ UNCHANGED <<capacity, pool, lock, is_connected, in_use, idle_age, pc,
                   callVars, conn, outcome, jobVars>>

\* s contains sub
Contains(s, sub) ==
    \E i \in 0..(Len(s) - Len(sub)) : SubSeq(s, i + 1, i + Len(sub)) = sub

\* if "FORMAT" not in query.upper():
\*     query = f"{query} FORMAT {format_name.value}"
WithFormat(query, format_name) ==
    IF ~Contains(Upper(query), <<"F", "O", "R", "M", "A", "T">>)
    THEN query \o <<" ", "F", "O", "R", "M", "A", "T", " ">> \o ResultFormat[format_name]
    ELSE query

\* Query texts given to Connection.execute_with_format.
QueryInputs ==
    {<<"S", "E", "L", "E", "C", "T", " ", "1">>,
     <<"S", "E", "L", "E", "C", "T", " ", "1", " ", "F", "O", "R", "M", "A", "T", " ", "C", "S", "V">>,
     <<"s", "e", "l", "e", "c", "t", " ", "1", " ", "f", "o", "r", "m", "a", "t", " ", "P", "r", "e", "t", "t", "y">>,
     <<"S", "E", "L", "E", "C", "T", " ", "i", "n", "f", "o", "r", "m", "a", "t", "i", "o", "n">>,
     <<"S", "E", "L", "E", "C", "T", " ", "'", "F", "O", "R", "M", "A", "T", "'">>}

\* Connection.execute_with_format, for the query text it sends to the
\* driver (the connection's flags are those of the worker steps above).
ExecuteWithFormat(query, format_name) ==
    /\ method = "none"
    /\ method' = "Connection.execute_with_format"
    /\ args' = [query |-> query, format_name |-> format_name]
    /\ handed' = [kind |-> "call", query |-> WithFormat(query, format_name)]
    /\ UNCHANGED <<stage, backend, ret>>
    /\ UNCHANGED <<capacity, pool, lock, is_connected, in_use, idle_age, pc,
                   callVars, conn, outcome, jobVars>>

\* The query tool and the format directive, one call at a time.
NextFormats ==
    \/ /\ method = "none"
       /\ \E format \in FormatInputs, answer \in AnswerInputs :
             Query(format, answer)
    \/ /\ method = "none"
       /\ \E query \in QueryInputs, format_name \in DOMAIN ResultFormat :
             ExecuteWithFormat(query, format_name)

SpecFormats == Init /\ [][NextFormats]_vars

\* --------------------------------------------------------------- claims
\* The caller is between the return of get_connection and the release at
\* the end of its connection() scope.
InScope(c) == pc[c] \in {"in_scope", "awaiting"}

Borrowers(k) == {c \in Callers : InScope(c) /\ conn[c] = k}

\* get_connection returns to caller c in this step.
GetReturns(c) == ~InScope(c) /\ InScope(c)'

\* Caller c leaves its connection() scope in this step.
LeavesScope(c) == InScope(c) /\ ~InScope(c)'

\* C1: no connection is borrowed by two callers at once: between the return
\* of get_connection to one caller and the end of that caller's scope the
\* same connection is returned to nobody else, and at most pool_size
\* connections are borrowed at any instant.
C1_MutualExclusion ==
    /\ \A k \in ConnIds : Cardinality(Borrowers(k)) <= 1
    /\ Cardinality({c \in Callers : InScope(c)}) <= pool_size

\* C2: in every reachable state the pool has at most pool_size members.
C2_CapacityBound == Len(pool) <= pool_size

\* C2 witness: the pool is at capacity, a further caller is kept waiting.
C2_Witness ==
    /\ Len(pool) = pool_size
    /\ \E c \in Callers : pc[c] = "polling"

\* The pool has pool_size members and each of them is borrowed by a caller
\* that is still inside its scope.
FullAndBorrowed ==
    /\ Len(pool) = pool_size
    /\ \A k \in Members(pool) : Borrowers(k) # {}

\* C3: while the pool has pool_size members and every borrower is still
\* inside its scope, no get_connection call returns and no member is
\* created.
C3_BlocksAtCapacity ==
    [][FullAndBorrowed =>
          /\ \A c \in Callers : ~GetReturns(c)
          /\ Members(pool') \subseteq Members(pool)]_vars

\* C4: no two driver calls are in flight on the same connection at the
\* same time, cancelled callers' calls included.
C4_NoOverlappingExecutions ==
    \A c, d \in Callers :
        (c # d /\ jphase[c] = "running" /\ jphase[d] = "running")
            => conn[c] # conn[d]

\* C5: get_connection never returns an existing member whose idle age
\* exceeds pool_recycle, in the scan or in the busy-poll.
C5_NeverReturnsStale ==
    [][\A c \in Callers :
          (GetReturns(c) /\ conn'[c] \in Members(pool))
              => ~IsStale(conn'[c])]_vars

\* pool.execute or pool.execute_with_format of caller c finishes in this
\* step, its delegated call having returned or raised.
PoolExecuteFinishes(c) ==
    /\ op[c] # "scope"
    /\ pc[c] = "awaiting" /\ Finished(c)
    /\ pc'[c] # "awaiting"

\* C6: when pool.execute or pool.execute_with_format finishes, by a result
\* or by an exception of the delegated call, the connection acquired for
\* the call is not marked in_use.
C6_ReleaseOnEveryOutcome ==
    [][\A c \in Callers : PoolExecuteFinishes(c) => ~in_use'[conn[c]]]_vars

\* C6 witness: the only call made so far, a pool.execute, has ended with
\* the exception of its delegated call, and the member it created and used
\* is idle in the pool.
C6_Witness ==
    \E c \in Callers :
        /\ pc[c] = "idle" /\ op[c] = "pool_execute"
        /\ outcome[c] \in ErrKinds
        /\ \A d \in Callers \ {c} : op[d] = "none"
        /\ pool # <<>>
        /\ \A k \in Members(pool) : ~in_use[k]

\* Caller c is cancelled inside get_connection in this step.
CancelledInGet(c) ==
    /\ pc[c] \in {"wait_lock", "polling"}
    /\ outcome'[c] \in {"cancelled_at_lock", "cancelled_at_poll"}

\* C7: a caller leaving its connection() scope, by return, exception or
\* cancellation, has the in_use flag of its connection cleared; a caller
\* cancelled while waiting for the guard or in the busy-poll marks no
\* member in_use, takes no connection and does not keep the guard.
C7_ScopedAcquisition ==
    [][\A c \in Callers :
          /\ LeavesScope(c) => ~in_use'[conn[c]]
          /\ CancelledInGet(c) =>
                (in_use' = in_use /\ conn'[c] = NoConn /\ lock' # c)]_vars

\* C7 witness: a caller was cancelled in the busy-poll; the guard is free
\* and the members are those the borrowers hold.
C7_Witness ==
    \E c \in Callers :
        /\ pc[c] = "idle" /\ outcome[c] = "cancelled_at_poll"
        /\ lock = NoOwner
        /\ FullAndBorrowed

\* C8: the release at the end of the connection() scope, coming after the
\* release Connection.execute made in its finally, changes no in_use flag.
C8_SecondReleaseChangesNothing ==
    [][\A c \in Callers :
          (pc[c] = "awaiting" /\ jphase[c] = "done" /\ LeavesScope(c))
              => in_use' = in_use]_vars

\* The call of caller c has raised an error to the caller.
Raised(c) ==
    /\ pc[c] = "idle"
    /\ outcome[c] \notin {"none", "ok"} \cup CancelOutcomes

\* C9: Client.execute never makes a 4th attempt, and a call whose every
\* attempt failed with a transient backend error raises after exactly 3.
C9_RetryBound ==
    \A c \in ClientCallers :
        /\ attempts[c] <= 3
        /\ (op[c] = "client_execute" /\ Raised(c) /\ errs[c] = {"transient"})
              => attempts[c] = 3

\* C9 witness: three attempts, all failed transiently, and the call raised.
C9_Witness ==
    \E c \in ClientCallers :
        /\ op[c] = "client_execute" /\ Raised(c)
        /\ errs[c] = {"transient"} /\ attempts[c] = 3

\* The delegated call of an attempt of Client.execute has raised the error
\* e and the awaiting coroutine takes it in this step.
AttemptFailsWith(c, e) ==
    /\ op[c] = "client_execute"
    /\ pc[c] = "awaiting" /\ jphase[c] = "done" /\ jres[c] = e
    /\ pc'[c] # "awaiting"

\* C10: an attempt of Client.execute that fails with a non-transient
\* backend error is the only attempt, and its error goes to the caller at
\* once.
C10_NoRetryOfNonTransient ==
    [][\A c \in ClientCallers :
          AttemptFailsWith(c, "nontransient")
              => (attempts[c] = 1 /\ pc'[c] = "idle"
                  /\ outcome'[c] = "nontransient")]_vars

\* The last attempt the retry policy allows to Client.execute has failed
\* with a backend error and the call ends in this step.
ExhaustsRetries(c) ==
    /\ op[c] = "client_execute"
    /\ pc[c] = "awaiting" /\ jphase[c] = "done"
    /\ IsClickHouseError(jres[c])
    /\ attempts[c] = StopAfterAttempt
    /\ pc'[c] = "idle" /\ outcome'[c] # "cancelled_in_scope"

\* C11: when Client.execute has used up its attempts, the error the caller
\* gets is the backend error of the last attempt, unchanged.
C11_FinalFailureReraised ==
    [][\A c \in ClientCallers :
          ExhaustsRetries(c) => outcome'[c] = jres[c]]_vars

\* The settings the caller gave, none counting as no key at all.
CallerSettings == IF args.settings.py = "None" THEN EmptyDict
                  ELSE args.settings.items

\* A call of Client.execute, Client.execute_with_format or Client.insert_data
\* that has something to send to the backend has been made.
SendingCallMade ==
    \/ method \in ExecuteMethods
    \/ method = "Client.insert_data" /\ args.data # <<>>

\* C12: the settings handed to the connection are the caller's settings,
\* with max_execution_time = query_timeout added exactly when the caller's
\* settings had no such key; no other key is added, removed or changed.
C12_TimeoutInjection ==
    SendingCallMade =>
        /\ handed.kind = "call"
        /\ DOMAIN handed.settings =
              DOMAIN CallerSettings \cup {"max_execution_time"}
        /\ \A k \in DOMAIN CallerSettings :
              handed.settings[k] = CallerSettings[k]
        /\ "max_execution_time" \notin DOMAIN CallerSettings
              => handed.settings["max_execution_time"] = query_timeout

\* Client.insert_data is called with no row in this step.
InsertsNothing ==
    /\ method = "none" /\ method' = "Client.insert_data"
    /\ args'.data = <<>>

\* C13: insert_data with an empty row list returns rows_inserted = 0, hands
\* nothing to a connection and leaves the pool, its connections and every
\* caller's borrow as they were.
C13_EmptyInsertIsNoOp ==
    [][InsertsNothing =>
          /\ ret' = [kind |-> "returned", rows_inserted |-> 0]
          /\ handed' = Nothing
          /\ UNCHANGED <<pool, lock, is_connected, in_use, idle_age, conn,
                         jobVars>>]_vars

\* C13 witness: an empty insert has returned 0 and handed nothing down, in
\* a behaviour where the pool has a member with a driver call in flight.
C13_Witness ==
    /\ method = "Client.insert_data" /\ args.data = <<>>
    /\ ret.kind = "returned" /\ ret.rows_inserted = 0
    /\ handed = Nothing
    /\ pool # <<>>
    /\ \E c \in Callers : jphase[c] = "running" /\ conn[c] \in Members(pool)

\* C14: an insert_data call with n >= 1 rows that has ended has handed one
\* bulk insert to a connection, with the columns of the first row's keys in
\* order and one value per column for every row (null for a missing key),
\* and if it returned, it returned rows_inserted = n.
C14_InsertRows ==
    (method = "Client.insert_data" /\ args.data # <<>>
        /\ ret.kind # "nothing")
    => /\ handed.kind = "call"
       /\ handed.columns = Columns(args.data)
       /\ handed.params = Values(args.data)
       /\ ret.kind = "returned" => ret.rows_inserted = Len(args.data)

\* Nothing but the server's rejection of the query went wrong in the
\* Client.execute call that ended last.
OnlyServerRejections(c) == errs[c] \subseteq {"nontransient"}

\* C15: get_table_schema of a table the backend does not have ends with the
\* not-found error made from the empty catalog answer; of a table it has,
\* with the record built from the two answers.
C15_SchemaNotFound ==
    \A c \in ClientCallers :
        (method = "Client.get_table_schema" /\ ret.kind # "nothing"
            /\ OnlyServerRejections(c))
        => IF args.table \in ExistingTables
           THEN ret.kind = "returned" /\ ret.table = args.table
           ELSE ret = [kind |-> "raised", error |-> "does not exist"]

\* The name is that of some result format, letter case aside.
KnownFormat(format) ==
    \E m \in DOMAIN ResultFormat : Lower(ResultFormat[m]) = Lower(format)

\* What the tool returns for the same answer when "json" is requested.
AsJson == ToolResult(<<"j", "s", "o", "n">>, backend)

\* C16: for a format name that is no format's name the tool does not fail:
\* it warns and returns the result value and the row count it returns for
\* the same answer under "json".
C16_FormatFallback ==
    (method = "query" /\ ~KnownFormat(args.format))
    => /\ ret.kind = "returned" /\ ret.warned
       /\ ret.shape = AsJson.shape
       /\ ret.result = AsJson.result
       /\ ret.rows = AsJson.rows

\* C16 witness: "bogus" was requested for an answer with rows and columns,
\* and the tool warned and returned mappings.
C16_Witness ==
    /\ method = "query" /\ args.format = <<"b", "o", "g", "u", "s">>
    /\ backend.rows # <<>> /\ backend.columns # <<>>
    /\ ret.warned /\ ret.shape = "mappings"

\* C17: each documented format name resolves to its own format, not to the
\* fallback; "pretty" goes through Client.execute_with_format with PRETTY
\* and returns the backend's text; csv and tsv return the backend's rows
\* and columns as they came.
C17_RecognizedFormats ==
    method = "query" =>
        /\ args.format \in {<<"j", "s", "o", "n">>, <<"p", "r", "e", "t", "t", "y">>, <<"c", "s", "v">>, <<"t", "s", "v">>}
              => ~ret.warned
        /\ args.format = <<"p", "r", "e", "t", "t", "y">>
              => /\ handed.to = "Client.execute_with_format"
                 /\ handed.format_name = "PRETTY"
                 /\ ret.shape = "text" /\ ret.result = backend.text
        /\ args.format \in {<<"c", "s", "v">>, <<"t", "s", "v">>}
              => /\ ret.shape = "rows and columns"
                 /\ ret.result = <<backend.rows, backend.columns>>

\* C18: for json the tool returns one mapping per backend row, in row order,
\* whose keys are the column names in metadata order and whose values are
\* the values of that row, all of them; the row count is the number of rows.
C18_ReshapingLosesNothing ==
    (method = "query" /\ args.format = <<"j", "s", "o", "n">>)
    => /\ ret.shape = "mappings"
       /\ ret.rows = Len(backend.rows)
       /\ Len(ret.result) = Len(backend.rows)
       /\ \A i \in 1..Len(backend.rows) :
             /\ Keys(ret.result[i]) = NamesOf(backend.columns)
             /\ \A j \in 1..Len(backend.columns) :
                   ret.result[i][j][2] = backend.rows[i][j]

\* Number of format directives in a query text: the keyword between blanks,
\* in either letter case.
KeywordCount(q) ==
    Cardinality({i \in 0..(Len(q) - 8) :
                    Upper(SubSeq(q, i + 1, i + 8)) = <<" ", "F", "O", "R", "M", "A", "T", " ">>})

\* C19: the text sent to the backend has one format directive: the query
\* with the directive appended when it had none, the query itself when it
\* had one; the injection applied to the sent text changes nothing.
C19_DirectiveExactlyOnce ==
    method = "Connection.execute_with_format" =>
        /\ KeywordCount(handed.query) = 1
        /\ handed.query =
              IF KeywordCount(args.query) = 0
              THEN args.query \o <<" ", "F", "O", "R", "M", "A", "T", " ">> \o ResultFormat[args.format_name]
              ELSE args.query
        /\ WithFormat(handed.query, args.format_name) = handed.query

\* C20: when close() completes the membership is empty and every connection
\* that was a member is disconnected, in use or not.
C20_PoolShutdown ==
    [][Close =>
          /\ pool' = <<>>
          /\ \A k \in Members(pool) : ~is_connected'[k]]_vars

\* C20 witness: close() ran while the only caller's driver call was in
\* flight on the only member: the pool is empty and that connection, still
\* marked in use, is disconnected.
C20_Witness ==
    \E c \in Callers :
        /\ \A d \in Callers \ {c} : op[d] = "none"
        /\ jphase[c] = "running"
        /\ in_use[conn[c]] /\ ~is_connected[conn[c]]
        /\ pool = <<>>

\* C21: a caller in the busy-poll of get_connection does not hold the
\* guard: while it sleeps the guard is free for get_connection and close()
\* of other callers.
C21_GuardFreeWhilePolling ==
    \A c \in Callers : pc[c] = "polling" => lock = NoOwner

\* The members nobody has borrowed, not marked in_use, whose idle age does
\* not exceed pool_recycle.
FreshIdle ==
    {k \in Members(pool) : ~in_use[k] /\ ~IsStale(k) /\ Borrowers(k) = {}}

\* The scan of get_connection of caller c runs in this step.
ScanRuns(c) ==
    /\ pc[c] = "wait_lock" /\ pc'[c] # "wait_lock"
    /\ outcome'[c] # "cancelled_at_lock"

\* C22: when the pool has an idle member that is not stale, get_connection
\* returns such a member and creates none, whether or not the scan removed
\* a stale member before reaching it.
C22_ScanContinuesAfterRemoval ==
    [][\A c \in Callers :
          (ScanRuns(c) /\ FreshIdle # {})
              => (conn'[c] \in FreshIdle
                  /\ Members(pool') \subseteq Members(pool))]_vars

\* Caller c is inside get_connection, waiting for the guard or in the
\* busy-poll.
Waiting(c) == pc[c] \in {"wait_lock", "polling"}

\* C23: under fair scheduling, with borrowers that release, every caller
\* inside get_connection eventually has the connection it asked for.
C23_EventualAcquisition ==
    \A c \in Callers : Waiting(c) ~> InScope(c)

\* C23 witness: a caller is in the busy-poll while the only member is
\* borrowed and has a driver call in flight.
C23_Witness ==
    \E c, d \in Callers :
        /\ pc[c] = "polling" /\ lock = c
        /\ pc[d] = "awaiting" /\ jphase[d] = "running"
        /\ conn[d] \in Members(pool)

\* An execution attempt of caller c's job completes in this step, the
\* caller still there to take its result.
AttemptCompletes(c) ==
    /\ ~Orphan(c)
    /\ jphase[c] = "running" /\ jphase'[c] = "done"

\* last_used of a connection is set to the current time only in a step in
\* which a driver call on it ends: not by acquisition, release, connect or
\* disconnect.
TouchedOnlyByAttempts ==
    \A k \in ConnIds :
        (idle_age'[k] = 0 /\ idle_age[k] # 0)
            => \E c \in Callers :
                  jphase[c] = "running" /\ jphase'[c] # "running"
                  /\ conn[c] = k

\* C24: last_used of a connection is set to the current time when an
\* execution attempt on it completes, successful or failed, and by nothing
\* else.
C24_LastUsedOnEveryAttempt ==
    [][/\ \A c \in Callers :
             AttemptCompletes(c) => idle_age'[conn[c]] = 0
       /\ TouchedOnlyByAttempts]_vars

\* C24 as the code has it: last_used is set to the current time when an
\* execution attempt succeeds, is left as it was when the attempt fails,
\* and is set by nothing else.
C24_LastUsedOnSuccess ==
    [][/\ \A c \in Callers :
             AttemptCompletes(c) =>
                 IF jres'[c] = "ok" THEN idle_age'[conn[c]] = 0
                 ELSE idle_age'[conn[c]] = idle_age[conn[c]]
       /\ TouchedOnlyByAttempts]_vars

\* C24 witness: the only call made so far has failed in the driver on the
\* connection created for it, and that connection's last_used is still the
\* initial one.
C24_Witness ==
    \E c \in Callers :
        /\ op[c] = "pool_execute" /\ attempts[c] = 1
        /\ jphase[c] = "done" /\ jres[c] \in ErrKinds
        /\ idle_age[conn[c]] = Old
        /\ \A d \in Callers \ {c} : op[d] = "none"

\* C25: the membership changes only in a step of a caller that takes the
\* guard, free until then: never while another caller holds it, so no two
\* callers change the membership at the same time.
C25_MutationsUnderGuard ==
    [][pool' # pool => lock = NoOwner]_vars

\* C25 witness: a borrower holds a connection that was removed from the
\* membership while another borrower holds the member created after it.
C25_Witness ==
    \E c, d \in Callers :
        /\ InScope(c) /\ conn[c] \in Members(pool)
        /\ InScope(d) /\ conn[d] # NoConn /\ conn[d] \notin Members(pool)

\* A worker thread of the executor picks up the job of caller c in this
\* step: whatever the step does on conn[c] runs in that thread.
OnWorker(c) == jphase[c] = "queued" /\ jphase'[c] # "queued" /\ pc' = pc

\* C26: a connection is connected, by connect() and its probe query, only
\* in a step of a worker thread, never in a step of a coroutine on the
\* event loop.
C26_NoNetworkOnScheduler ==
    [][\A k \in ConnIds :
          (~is_connected[k] /\ is_connected'[k])
              => \E c \in Callers : OnWorker(c) /\ conn[c] = k]_vars

\* connect() on the connection of caller c raises in this step: called by
\* the caller itself, or by Connection.execute in the caller's job.
ConnectFails(c) ==
    \/ \E e \in ErrKinds : ScopeConnectFail(c, e)
    \/ ~Orphan(c) /\ \E e \in ErrKinds : WorkerConnectFail(c, e)

\* The error of the failed connect is on its way to the caller: delivered,
\* or the result of the job the caller awaits.
ErrorPropagates(c) == outcome'[c] \in ErrKinds \/ jres'[c] \in ErrKinds

\* C27: after a connect() that raised, the connection has no session and
\* the error goes to the caller; after disconnect() the connection has no
\* session, and disconnect() on a connection without one changes nothing.
C27_FailedConnectLeavesNoSession ==
    [][\A c \in Callers :
          /\ ConnectFails(c) =>
                (~is_connected'[conn[c]] /\ ErrorPropagates(c))
          /\ ScopeDisconnect(c) =>
                /\ ~is_connected'[conn[c]]
                /\ ~is_connected[conn[c]] => UNCHANGED vars]_vars

\* C27 witness: the call of a caller ended with an error while a member of
\* the pool is left without a session, which only a failed connect leaves
\* behind.
C27_Witness ==
    \E c \in Callers :
        /\ pc[c] = "idle" /\ outcome[c] \in ErrKinds
        /\ \E k \in Members(pool) : ~is_connected[k]

\* get_connection of caller c ends in this step without a connection and
\* without a cancellation: the creation of the new connection raised.
CreationFails(c) ==
    /\ pc[c] = "wait_lock" /\ pc'[c] \in {"idle", "backoff"}
    /\ outcome'[c] # "cancelled_at_lock"

\* C28: when the creation of a connection fails inside get_connection the
\* error goes to the caller, the guard is free afterwards, the membership
\* has gained nothing, the caller has no connection and no in_use flag has
\* changed.
C28_FailedCreationIsClean ==
    [][\A c \in Callers :
          CreationFails(c) =>
              /\ outcome'[c] \in ErrKinds
              /\ lock' = NoOwner
              /\ Members(pool') \subseteq Members(pool)
              /\ conn'[c] = NoConn
              /\ in_use' = in_use]_vars

\* C28 witness: the only caller so far got the error of a failed creation;
\* the pool is empty and the guard free.
C28_Witness ==
    \E c \in Callers :
        /\ pc[c] = "idle" /\ outcome[c] \in ErrKinds
        /\ pool = <<>> /\ lock = NoOwner
        /\ \A k \in ConnIds : ~in_use[k]
        /\ \A d \in Callers \ {c} : op[d] = "none"

\* C29: a caller in the backoff wait between two attempts has no
\* connection, no job and not the guard; the connection of the failed
\* attempt is released in the step that starts the wait, and the wait ends
\* in a new get_connection call (or in the caller's cancellation).
C29_NoConnectionDuringBackoff ==
    [][\A c \in Callers :
          /\ pc'[c] = "backoff" =>
                (conn'[c] = NoConn /\ jphase'[c] = "none" /\ lock' # c)
          /\ (pc[c] = "awaiting" /\ pc'[c] = "backoff") => ~in_use'[conn[c]]
          /\ (pc[c] = "backoff" /\ pc'[c] # "backoff") =>
                (pc'[c] \in {"wait_lock", "idle"} /\ conn'[c] = NoConn)]_vars

\* C29 witness: while the client's caller is in its backoff wait after a
\* failed attempt, another caller runs a driver call on the pool's member.
C29_Witness ==
    \E c \in ClientCallers, d \in Callers :
        /\ pc[c] = "backoff" /\ attempts[c] >= 1 /\ errs[c] # {}
        /\ pc[d] = "awaiting" /\ jphase[d] = "running"
        /\ conn[d] \in Members(pool)

====
